---------------------------- MODULE Spec2Model ----------------------------
(***************************************************************************)
(* A model of src/src/lib.rs: the postfix token parser Expr::parse, the    *)
(* substitution Expr::subst and the single-step reduction                  *)
(* Expr::beta_reduce.                                                      *)
(*                                                                         *)
(* The machine is the data flow of the library: a caller hands a token     *)
(* sequence to parse, which consumes it one token per step on an operand   *)
(* stack; when parse returns Ok(tree) the caller holds the tree and calls  *)
(* subst or beta_reduce on it.  A Rust panic (unwrap on None, panic!) is   *)
(* the distinguished value Aborted: the call returns no expression.        *)
(***************************************************************************)
EXTENDS Integers, Sequences, FiniteSets

VARIABLES
    input,      \* the token sequence handed to parse
    pos,        \* index of the next token the for loop of parse will take
    stack,      \* parse's operand stack, bottom first
    prev,       \* the operand stack as it was before the last step of parse
    outcome,    \* Running, or what parse returned: Ok(e), Err(kind), Aborted
    expected,   \* the tree the tokens were encoded from (NoExpr: raw tokens)
    term,       \* the expression the caller holds after parse (or Aborted)
    before,     \* the expression the last call consumed
    log         \* the calls made on the tree so far, oldest first

vars == <<input, pos, stack, prev, outcome, expected, term, before, log>>

----------------------------------------------------------------------------
(* Bounds of the model.                                                    *)

\* longest raw token sequence handed to parse
MaxTokens == 5
\* most nodes in the body of an enumerated redex
MaxBodyNodes == 3
\* most nodes in the argument of an enumerated redex
MaxArgNodes == 2
\* most nodes in the replacement of a direct subst call
MaxReplNodes == 2
\* most calls (subst, beta_reduce) the caller makes on one parsed tree
MaxCalls == 3

\* the instance of Types: Sym (tests: String) and Val (tests: i32)
Syms == {"x", "y"}
Vals == {0}

----------------------------------------------------------------------------
(* enum Expr and its constructors.                                         *)

val(v)            == [tag |-> "Val", val |-> v]
var(name)         == [tag |-> "Var", sym |-> name]
lambda(arg, body) == [tag |-> "Lambda", sym |-> arg, body |-> body]
apply(func, arg)  == [tag |-> "App", func |-> func, arg |-> arg]

\* a panic: the call unwinds and returns no expression
Aborted == [tag |-> "Aborted"]
\* no expression held
NoExpr  == [tag |-> "None"]

IsExpr(e) == e.tag \in {"Val", "Var", "Lambda", "App"}

(* enum Token.                                                             *)
TokId(s)  == [tag |-> "Id", sym |-> s]
TokVal(v) == [tag |-> "Val", val |-> v]
TokLambda == [tag |-> "Lambda"]
TokApply  == [tag |-> "Apply"]

(* parse's Result: Ok(tree), Err(ParseError), or the panic of unwrap.      *)
Running   == [tag |-> "Running"]
Ok(e)     == [tag |-> "Ok", expr |-> e]
Err(kind) == [tag |-> "Err", kind |-> kind]

----------------------------------------------------------------------------
(* Expr::subst and Expr::beta_reduce.                                      *)

\* Box::new(Self::Lambda(a, b.subst(..))): a panic inside unwinds through
LambdaOf(a, b) == IF b.tag = "Aborted" THEN Aborted ELSE lambda(a, b)
\* Box::new(Self::App(f.subst(..), x.subst(..)))
AppOf(f, x) ==
    IF f.tag = "Aborted" \/ x.tag = "Aborted" THEN Aborted ELSE apply(f, x)

\* subst that moves exp into the function side of an App and leaves the
\* argument side as it was
RECURSIVE substFuncOnly(_, _, _)
substFuncOnly(self, v, exp) ==
    CASE self.tag = "Var" /\ self.sym = v    -> exp
      [] self.tag = "Lambda" /\ self.sym = v -> Aborted
      [] self.tag = "Lambda" /\ self.sym # v ->
            LambdaOf(self.sym, substFuncOnly(self.body, v, exp))
      [] self.tag = "App" ->
            AppOf(substFuncOnly(self.func, v, exp), self.arg)
      [] OTHER -> self

RECURSIVE subst(_, _, _)
subst(self, v, exp) ==
    CASE self.tag = "Var" /\ self.sym = v    -> exp
      [] self.tag = "Lambda" /\ self.sym = v -> Aborted
      [] self.tag = "Lambda" /\ self.sym # v ->
            LambdaOf(self.sym, subst(self.body, v, exp))
      [] self.tag = "App" ->
            AppOf(subst(self.func, v, exp), subst(self.arg, v, exp))
      [] OTHER -> self

\* beta_reduce that hands back what it cannot reduce
beta_reduceLenient(self) ==
    IF self.tag = "App" /\ self.func.tag = "Lambda"
    THEN subst(self.func.body, self.func.sym, self.arg)
    ELSE self

\* beta_reduce that goes on reducing when its result is a redex again
beta_reduceTwice(self) ==
    IF self.tag = "App"
    THEN IF self.func.tag = "Lambda"
         THEN LET r == subst(self.func.body, self.func.sym, self.arg)
              IN  IF r.tag = "App" /\ r.func.tag = "Lambda"
                  THEN subst(r.func.body, r.func.sym, r.arg)
                  ELSE r
         ELSE Aborted
    ELSE Aborted

beta_reduce(self) ==
    IF self.tag = "App"
    THEN IF self.func.tag = "Lambda"
         THEN subst(self.func.body, self.func.sym, self.arg)
         ELSE Aborted
    ELSE Aborted

----------------------------------------------------------------------------
(* Expr::parse, one token of the for loop per step.                        *)

Top(s)    == s[Len(s)]
Pop(s)    == SubSeq(s, 1, Len(s) - 1)

\* LambdaArm with the two pops taken in the other order: binder on top
LambdaArmSwapped(s) ==
    IF Len(s) = 0 THEN [outcome |-> Err("Underflow"), stack |-> s]
    ELSE IF Len(s) = 1 THEN [outcome |-> Err("Underflow"), stack |-> Pop(s)]
    ELSE LET arg  == Top(s)
             body == Top(Pop(s))
             rest == Pop(Pop(s))
         IN  IF arg.tag = "Var"
             THEN [outcome |-> Running,
                   stack   |-> Append(rest, lambda(arg.sym, body))]
             ELSE [outcome |-> Err("NotAVar"), stack |-> rest]

\* Token::Lambda arm: the outcome and the stack after it
LambdaArm(s) ==
    IF Len(s) = 0 THEN [outcome |-> Err("Underflow"), stack |-> s]
    ELSE IF Len(s) = 1 THEN [outcome |-> Err("Underflow"), stack |-> Pop(s)]
    ELSE LET body == Top(s)
             arg  == Top(Pop(s))
             rest == Pop(Pop(s))
         IN  IF arg.tag = "Var"
             THEN [outcome |-> Running,
                   stack   |-> Append(rest, lambda(arg.sym, body))]
             ELSE [outcome |-> Err("NotAVar"), stack |-> rest]

\* ApplyArm with the two pops taken in the other order: function on top
ApplyArmSwapped(s) ==
    IF Len(s) = 0 THEN [outcome |-> Aborted, stack |-> s]
    ELSE IF Len(s) = 1 THEN [outcome |-> Aborted, stack |-> Pop(s)]
    ELSE LET func == Top(s)
             arg  == Top(Pop(s))
             rest == Pop(Pop(s))
         IN  [outcome |-> Running, stack |-> Append(rest, apply(func, arg))]

\* Token::Apply arm: both pops are unwrap()
ApplyArm(s) ==
    IF Len(s) = 0 THEN [outcome |-> Aborted, stack |-> s]
    ELSE IF Len(s) = 1 THEN [outcome |-> Aborted, stack |-> Pop(s)]
    ELSE LET arg  == Top(s)
             func == Top(Pop(s))
             rest == Pop(Pop(s))
         IN  [outcome |-> Running, stack |-> Append(rest, apply(func, arg))]

\* EndArm returning the top of any non-empty stack
EndArmLenient(s) ==
    IF Len(s) >= 1
    THEN [outcome |-> Ok(Top(s)), stack |-> Pop(s)]
    ELSE [outcome |-> Err("EOF"), stack |-> s]

\* after the loop: if stack.len() == 1 { Ok(pop) } else { Err(EOF) }
EndArm(s) ==
    IF Len(s) = 1
    THEN [outcome |-> Ok(Top(s)), stack |-> Pop(s)]
    ELSE [outcome |-> Err("EOF"), stack |-> s]

InLoop == outcome = Running /\ pos <= Len(input)

CallsUnchanged == UNCHANGED <<term, before, log>>

PushVal ==
    /\ InLoop
    /\ input[pos].tag = "Val"
    /\ stack' = Append(stack, val(input[pos].val))
    /\ prev' = stack
    /\ pos' = pos + 1
    /\ UNCHANGED <<input, outcome, expected>>
    /\ CallsUnchanged

PushId ==
    /\ InLoop
    /\ input[pos].tag = "Id"
    /\ stack' = Append(stack, var(input[pos].sym))
    /\ prev' = stack
    /\ pos' = pos + 1
    /\ UNCHANGED <<input, outcome, expected>>
    /\ CallsUnchanged

\* a step of an arm that may fail: the loop goes on only if it did not
ArmStep(r) ==
    /\ stack' = r.stack
    /\ outcome' = r.outcome
    /\ prev' = stack
    /\ pos' = IF r.outcome = Running THEN pos + 1 ELSE pos
    /\ UNCHANGED <<input, expected>>
    /\ CallsUnchanged

LambdaToken ==
    /\ InLoop
    /\ input[pos].tag = "Lambda"
    /\ ArmStep(LambdaArm(stack))

ApplyToken ==
    /\ InLoop
    /\ input[pos].tag = "Apply"
    /\ ArmStep(ApplyArm(stack))

EndOfInput ==
    /\ outcome = Running
    /\ pos > Len(input)
    /\ LET r == EndArm(stack)
       IN  /\ stack' = r.stack
           /\ outcome' = r.outcome
           /\ term' = IF r.outcome.tag = "Ok" THEN r.outcome.expr ELSE NoExpr
    /\ prev' = stack
    /\ UNCHANGED <<input, pos, expected, before, log>>

----------------------------------------------------------------------------
(* The caller's calls on the parsed tree.                                  *)

ParseUnchanged == UNCHANGED <<input, pos, stack, prev, outcome, expected>>

BetaCall  == [op |-> "beta_reduce"]
SubstCall(v, exp) == [op |-> "subst", var |-> v, exp |-> exp]

Holding == outcome.tag = "Ok" /\ IsExpr(term) /\ Len(log) < MaxCalls

BetaReduce ==
    /\ Holding
    /\ term' = beta_reduce(term)
    /\ before' = term
    /\ log' = Append(log, BetaCall)
    /\ ParseUnchanged

\* The caller substitutes into the tree as parse returned it; the calls that
\* follow are beta_reduce (this keeps the reachable trees finite in number).
Subst(v, exp) ==
    /\ Holding
    /\ log = << >>
    /\ term' = subst(term, v, exp)
    /\ before' = term
    /\ log' = Append(log, SubstCall(v, exp))
    /\ ParseUnchanged

----------------------------------------------------------------------------
(* The inputs: token sequences and the trees they are encoded from.        *)

Leaves == {val(v) : v \in Vals} \cup {var(s) : s \in Syms}

\* the expression trees with exactly n nodes over Syms and Vals
RECURSIVE ExprsOfSize(_)
ExprsOfSize(n) ==
    IF n <= 1 THEN Leaves
    ELSE {lambda(s, b) : s \in Syms, b \in ExprsOfSize(n - 1)}
         \cup UNION {{apply(f, x) : f \in ExprsOfSize(i),
                                    x \in ExprsOfSize(n - 1 - i)}
                     : i \in 1..(n - 2)}

ExprsUpTo(n) == UNION {ExprsOfSize(k) : k \in 1..n}

\* every Application(Lambda(binder, body), argument) within the bounds
Redexes ==
    {apply(lambda(s, b), a) :
        s \in Syms, b \in ExprsUpTo(MaxBodyNodes), a \in ExprsUpTo(MaxArgNodes)}

\* the trees of tests::test_parse_simple2 and tests::test_beta_reduction
TestParse2 == apply(lambda("x", var("y")), var("z"))
TestBeta1  == apply(lambda("x", var("x")), val(0))
TestBeta2  == apply(lambda("x", lambda("y", var("x"))), val(0))
TestBeta3  == apply(lambda("f", apply(var("f"), val(0))),
                    lambda("x", var("x")))

\* (\x. x x) (\x. x x)
SelfApp == lambda("x", apply(var("x"), var("x")))
Omega   == apply(SelfApp, SelfApp)

\* a redex whose body and whose argument each hold a redex of their own
Nested ==
    apply(lambda("x", apply(apply(lambda("y", var("y")), val(0)), var("x"))),
          apply(lambda("y", var("y")), val(0)))

Examples == {TestParse2, TestBeta1, TestBeta2, TestBeta3, Omega, Nested}

Trees == ExprsUpTo(MaxBodyNodes) \cup Redexes \cup Examples

\* the postfix encoding of a tree (the comment on enum Token)
RECURSIVE post(_)
post(e) ==
    CASE e.tag = "Val"    -> <<TokVal(e.val)>>
      [] e.tag = "Var"    -> <<TokId(e.sym)>>
      [] e.tag = "Lambda" -> <<TokId(e.sym)>> \o post(e.body) \o <<TokLambda>>
      [] e.tag = "App"    -> post(e.func) \o post(e.arg) \o <<TokApply>>

Tokens ==
    {TokId(s) : s \in Syms} \cup {TokVal(v) : v \in Vals}
        \cup {TokLambda, TokApply}

TokenSeqs == UNION {[1..n -> Tokens] : n \in 0..MaxTokens}

Init ==
    /\ \/ /\ expected = NoExpr
          /\ input \in TokenSeqs
       \/ /\ expected \in Trees
          /\ input = post(expected)
    /\ pos = 1
    /\ stack = << >>
    /\ prev = << >>
    /\ outcome = Running
    /\ term = NoExpr
    /\ before = NoExpr
    /\ log = << >>

Next ==
    \/ PushVal
    \/ PushId
    \/ LambdaToken
    \/ ApplyToken
    \/ EndOfInput
    \/ BetaReduce
    \/ \E v \in Syms, exp \in ExprsUpTo(MaxReplNodes) : Subst(v, exp)

Spec == Init /\ [][Next]_vars

----------------------------------------------------------------------------
(* The vocabulary of the properties.                                       *)

\* the free variables of a tree: occurrences not under a binder of the name
RECURSIVE FreeVars(_)
FreeVars(e) ==
    CASE e.tag = "Var"    -> {e.sym}
      [] e.tag = "Lambda" -> FreeVars(e.body) \ {e.sym}
      [] e.tag = "App"    -> FreeVars(e.func) \cup FreeVars(e.arg)
      [] OTHER            -> {}

\* substitution as specified: replace the free occurrences of v, leave the
\* body of a Lambda that binds v alone, rename nothing
RECURSIVE Substitute(_, _, _)
Substitute(e, v, r) ==
    CASE e.tag = "Var"    -> IF e.sym = v THEN r ELSE e
      [] e.tag = "Lambda" ->
            IF e.sym = v THEN e ELSE lambda(e.sym, Substitute(e.body, v, r))
      [] e.tag = "App"    ->
            apply(Substitute(e.func, v, r), Substitute(e.arg, v, r))
      [] OTHER            -> e

\* how many Variable(s) nodes a tree holds
RECURSIVE Occ(_, _)
Occ(s, e) ==
    CASE e.tag = "Var"    -> IF e.sym = s THEN 1 ELSE 0
      [] e.tag = "Lambda" -> Occ(s, e.body)
      [] e.tag = "App"    -> Occ(s, e.func) + Occ(s, e.arg)
      [] OTHER            -> 0

\* the shape beta_reduce matches: Application(Lambda(_, _), _)
IsRedex(e) == e.tag = "App" /\ e.func.tag = "Lambda"

\* how many redexes a tree holds, the root included
RECURSIVE RedexCount(_)
RedexCount(e) ==
    CASE e.tag = "Lambda" -> RedexCount(e.body)
      [] e.tag = "App"    ->
            (IF e.func.tag = "Lambda" THEN 1 ELSE 0)
                + RedexCount(e.func) + RedexCount(e.arg)
      [] OTHER            -> 0

\* the last step of parse took a token of this kind (and went on or failed)
Processed(kind) ==
    \/ outcome = Running /\ pos > 1 /\ input[pos - 1].tag = kind
    \/ outcome # Running /\ pos <= Len(input) /\ input[pos].tag = kind

\* parse took every token and ran the code after the loop
AtEnd == outcome # Running /\ pos > Len(input)

LastCall  == log[Len(log)]
LastBeta  == Len(log) >= 1 /\ LastCall.op = "beta_reduce"
LastSubst == Len(log) >= 1 /\ LastCall.op = "subst"
OnlyBeta  == \A i \in 1..Len(log) : log[i].op = "beta_reduce"

----------------------------------------------------------------------------
(* The parser.                                                             *)

\* C1: an ApplyMarker processed on a stack of fewer than two items makes
\* parse return Err(Underflow), and parse never aborts.
C1_ApplyUnderflowIsAnError ==
    /\ Processed("Apply") /\ Len(prev) < 2 => outcome = Err("Underflow")
    /\ outcome # Aborted

\* C2: when parse has taken every token without an error, it returns the
\* one item left on the stack if there is exactly one, and Err(EOF) if
\* there are none or more than one.
C2_EndOfInput ==
    AtEnd =>
        IF Len(prev) = 1 THEN outcome = Ok(prev[1]) ELSE outcome = Err("EOF")

\* parse reached the end of the tokens with more than one item stacked
C2_Witness ==
    AtEnd /\ Len(prev) > 1 /\ outcome = Err("EOF") /\ Len(input) > 0

\* C3: a LambdaMarker pops the body, then the binder candidate; with fewer
\* than two items parse fails with Underflow, with a binder candidate that
\* is no Variable it fails with NotAVar and takes no further token, and
\* otherwise Lambda(s, body) replaces the two items.
C3_LambdaMarker ==
    Processed("Lambda") =>
        LET n == Len(prev)
        IN  IF n < 2 THEN outcome = Err("Underflow")
            ELSE IF prev[n - 1].tag # "Var"
                 THEN /\ outcome = Err("NotAVar")
                      /\ ~ ENABLED Next
            ELSE /\ outcome = Running
                 /\ Len(stack) = n - 1
                 /\ stack = Append(SubSeq(prev, 1, n - 2),
                                   lambda(prev[n - 1].sym, prev[n]))

\* parse failed with NotAVar on a LambdaMarker that other tokens follow
C3_Witness ==
    /\ Processed("Lambda")
    /\ outcome = Err("NotAVar")
    /\ pos < Len(input)
    /\ prev[Len(prev)].tag = "Var"

\* C4: parse inverts the postfix encoding: parse(post(e)) returns Ok(e).
C4_ParseInvertsPost ==
    expected # NoExpr =>
        /\ outcome.tag \in {"Running", "Ok"}
        /\ outcome # Running => outcome = Ok(expected)
        /\ outcome # Running /\ log = << >> => term = expected

\* parse returned the tree of an encoded Application of a Lambda
C4_Witness ==
    /\ expected # NoExpr
    /\ expected.tag = "App"
    /\ expected.func.tag = "Lambda"
    /\ expected.func.body # expected.arg
    /\ outcome = Ok(expected)

----------------------------------------------------------------------------
(* Substitution and reduction.                                             *)

\* C5: beta_reduce of Application(Lambda(binder, body), argument) returns
\* body with every free occurrence of binder replaced by argument and
\* every other node unchanged.
C5_BetaReduceIsSubstitute ==
    LastBeta /\ IsRedex(before) =>
        term = Substitute(before.func.body, before.func.sym, before.arg)

\* C6: subst of a symbol that does not occur free in the tree, shadowed
\* occurrences included, returns a tree equal to the one it was given.
C6_NotFreeIsIdentity ==
    LastSubst /\ LastCall.var \notin FreeVars(before) => term = before

\* C7: beta_reduce of anything that is not Application(Lambda(_, _), _)
\* aborts: it returns neither its input nor any other value.
C7_NotReducibleAborts ==
    LastBeta /\ ~ IsRedex(before) => term = Aborted

\* beta_reduce was called on an Application whose function is no Lambda
C7_Witness ==
    /\ LastBeta
    /\ before.tag = "App"
    /\ before.func.tag # "Lambda"
    /\ term = Aborted

\* C8: subst on Lambda(a, body) with a # var returns
\* Lambda(a, substitute(body, var, replacement)), binder kept and nothing
\* renamed; when a is free in the replacement the free variables of the
\* result are not (free(target) \ {var}) \cup free(replacement).
C8_LambdaKeepsBinder ==
    LastSubst /\ before.tag = "Lambda" /\ before.sym # LastCall.var =>
        LET v == LastCall.var
            r == LastCall.exp
        IN  /\ term = lambda(before.sym, Substitute(before.body, v, r))
            /\ before.sym \in FreeVars(r) =>
                   FreeVars(term) # (FreeVars(before) \ {v}) \cup FreeVars(r)

\* C9: beta_reduce takes one step, at the root: what it returns is the
\* body with the argument put in, the redexes of body and argument still
\* in it and a result that is a redex left as it is; the test's chain of
\* two root steps takes two calls.
C9_OneStepAtTheRoot ==
    /\ LastBeta /\ IsExpr(term) =>
          LET body == before.func.body
              a    == before.func.sym
              x    == before.arg
          IN  /\ term = Substitute(body, a, x)
              /\ RedexCount(term) >= RedexCount(body) + Occ(a, body) * RedexCount(x)
    /\ expected = TestBeta3 /\ log = <<BetaCall>> =>
          term = apply(lambda("x", var("x")), val(0))
    /\ expected = TestBeta3 /\ log = <<BetaCall, BetaCall>> => term = val(0)

\* the second call finished the chain that the first call left a redex of
C9_Witness ==
    /\ expected = TestBeta3
    /\ log = <<BetaCall, BetaCall>>
    /\ IsRedex(before)
    /\ term = val(0)

\* the redexes inside body and argument came through a call unreduced
C9_NestedWitness ==
    /\ expected = Nested
    /\ log = <<BetaCall>>
    /\ RedexCount(term) = 2

\* C10: on (\x. x x)(\x. x x) beta_reduce returns, without aborting, a
\* tree equal to its input: every tree of the repeated reduction is this
\* redex again.
C10_OmegaReducesToItself ==
    expected = Omega /\ outcome.tag = "Ok" /\ OnlyBeta =>
        /\ term = Omega
        /\ IsRedex(term)
        /\ beta_reduce(term) = term

\* beta_reduce has been called on Omega more than once and Omega is held
C10_Witness ==
    /\ expected = Omega
    /\ OnlyBeta
    /\ Len(log) >= 2
    /\ before = Omega
    /\ term = Omega

============================================================================
